---- MODULE Spec2Model ----
(***************************************************************************)
(* Model of psychapp.py: a Streamlit page whose script is re-executed once *)
(* per user event against st.session_state.  One action is one script run  *)
(* (an event plus the st.rerun() it may end with).  Strings are modelled   *)
(* as sequences of tokens so that prefixing, stripping and parsing are     *)
(* computed rather than assumed.                                           *)
(***************************************************************************)
EXTENDS Integers, Sequences, FiniteSets, TLC

VARIABLES
    chat_history,          \* st.session_state.chat_history
    messages,              \* st.session_state.messages
    last_processed_audio,  \* st.session_state.last_processed_audio
    report_generated,      \* st.session_state.report_generated
    final_report_json,     \* st.session_state.final_report_json (Absent = key not set)
    mode,                  \* st.session_state.mode
    audio_val,             \* value held by the st.audio_input widget
    event,                 \* the user event that started the last script run
    calls,                 \* the model calls made during the last script run
    turns,                 \* text turns completed since the session was created
    clean                  \* TRUE while every event so far was a completed text turn

vars == <<chat_history, messages, last_processed_audio, report_generated,
          final_report_json, mode, audio_val, event, calls, turns, clean>>

----------------------------------------------------------------------------
(* Bounds *)

MaxMsgs == 5       \* a turn is accepted while Len(messages) + 2 <= MaxMsgs
MaxAudio == 2      \* recordings carry a file id in 1..MaxAudio

----------------------------------------------------------------------------
(* Values *)

None == "None"      \* Python None where the other values are strings
NoAudio == 0         \* Python None where the other values are file ids
Absent == "Absent"

SystemPrompt == <<"System: You are Dr. Gemini">>
Understood == <<"Understood.">>
WelcomeMsg == <<"Hello. I am here to listen.">>
Unintelligible == <<"[Unintelligible Audio]">>
MicPrefix == <<"MIC ">>

\* what the user may type into st.chat_input (non-empty strings)
Texts == {<<"I feel okay">>}

\* response.text of the transcription call, before .strip()
RawTranscripts == {<<" ", "anxious", " ">>}

\* response.text of the conversation call
Replies == {<<"How do you sleep?">>}

\* resp.text of the report call, token by token
Payloads == { <<"{", "s", ":", "s", "}">>,
              <<"{", "s", ":">>,
              <<"s">> }

AudioIds == 1..MaxAudio

Block(role, text) == [role |-> role, parts |-> <<text>>]
Msg(role, content, audio) == [role |-> role, content |-> content, audio |-> audio]

\* lines 65-76: the seed pair
SeedPair == << Block("user", SystemPrompt), Block("model", Understood) >>

\* lines 65-81: chat_history once the setup section has run on an empty session
SetupChatHistory == Append(SeedPair, Block("model", WelcomeMsg))

\* lines 78-80: messages once the setup section has run on an empty session
SetupMessages == << Msg("assistant", WelcomeMsg, Absent) >>

----------------------------------------------------------------------------
(* Pure helpers *)

RECURSIVE LStrip(_)
LStrip(s) == IF s # <<>> /\ Head(s) = " " THEN LStrip(Tail(s)) ELSE s

RECURSIVE RStrip(_)
RStrip(s) == IF s # <<>> /\ s[Len(s)] = " "
             THEN RStrip(SubSeq(s, 1, Len(s) - 1)) ELSE s

\* str.strip()
Strip(s) == RStrip(LStrip(s))

\* str.upper() on the two role names
Upper(role) == IF role = "assistant" THEN "ASSISTANT"
               ELSE IF role = "user" THEN "USER" ELSE role

\* lines 111-124: the synthesis paths get_audio_bytes goes through, in order
TtsAttempts(edgeOk, gttsOk) ==
    IF edgeOk THEN << [path |-> "edge", ok |-> TRUE] >>
    ELSE << [path |-> "edge", ok |-> FALSE], [path |-> "gtts", ok |-> gttsOk] >>

\* variant: the simple voice is preferred
get_audio_bytes_gtts_first(edgeOk, gttsOk) ==
    IF gttsOk THEN "gtts" ELSE IF edgeOk THEN "edge" ELSE None

\* get_audio_bytes: Edge TTS first, gTTS only if it raised, None if both raise
get_audio_bytes(edgeOk, gttsOk) ==
    IF edgeOk THEN "edge" ELSE IF gttsOk THEN "gtts" ELSE None

\* variant: a failed transcription yields no text
transcribe_audio_empty(ok, raw) == IF ok THEN Strip(raw) ELSE <<>>

\* transcribe_audio: stripped response text, or the sentinel on any exception
transcribe_audio(ok, raw) == IF ok THEN Strip(raw) ELSE Unintelligible

\* json.loads over the token grammar  value ::= "s" | "{" "}" | "{" "s" ":" value "}"
\* ParseValue returns the index after the value starting at i, or 0
RECURSIVE ParseValue(_, _)
ParseValue(toks, i) ==
    IF i > Len(toks) THEN 0
    ELSE IF toks[i] = "s" THEN i + 1
    ELSE IF toks[i] = "{" THEN
        IF i + 1 <= Len(toks) /\ toks[i + 1] = "}" THEN i + 2
        ELSE IF i + 2 <= Len(toks) /\ toks[i + 1] = "s" /\ toks[i + 2] = ":"
             THEN LET j == ParseValue(toks, i + 3)
                  IN IF j # 0 /\ j <= Len(toks) /\ toks[j] = "}" THEN j + 1 ELSE 0
             ELSE 0
    ELSE 0

JsonValid(toks) == ParseValue(toks, 1) = Len(toks) + 1

\* lines 259-274: what the report section shows
ReportView ==
    IF report_generated /\ final_report_json # Absent
    THEN IF JsonValid(final_report_json) /\ Head(final_report_json) = "{"
         THEN "report" ELSE "Could not parse report."
    ELSE "none"

\* variant: the welcome entry is left out of the transcript
TranscriptText_without_welcome(msgs) ==
    [i \in 1..(Len(msgs) - 1) |-> <<Upper(msgs[i + 1].role), ": ">> \o msgs[i + 1].content]

\* line 236: one "ROLE: content" line per entry of messages
TranscriptText(msgs) ==
    [i \in 1..Len(msgs) |-> <<Upper(msgs[i].role), ": ">> \o msgs[i].content]

----------------------------------------------------------------------------
(* process_ai_response, lines 137-154.  o is what the outside world does:   *)
(* o.ok = the generate_content call and response.text succeed, o.reply =    *)
(* the text, o.edge / o.gtts = whether each synthesis path succeeds.        *)

ChatOutcomes ==
    { [ok |-> FALSE, reply |-> <<>>, edge |-> FALSE, gtts |-> FALSE] } \cup
    { [ok |-> TRUE, reply |-> r, edge |-> e, gtts |-> g] :
        r \in Replies, e \in BOOLEAN, g \in BOOLEAN }

\* variant: the reply reaches the Turn Log only
process_ai_response_log_only(msgs, hist, o) ==
    IF o.ok
    THEN [messages |-> Append(msgs, Msg("assistant", o.reply,
                                         get_audio_bytes(o.edge, o.gtts))),
          chat_history |-> hist,
          call |-> [kind |-> "chat", arg |-> hist, ok |-> TRUE, result |-> o.reply,
                    tts |-> TtsAttempts(o.edge, o.gtts)],
          ret |-> TRUE]
    ELSE [messages |-> msgs,
          chat_history |-> hist,
          call |-> [kind |-> "chat", arg |-> hist, ok |-> FALSE, result |-> <<>>, tts |-> <<>>],
          ret |-> FALSE]

\* variant: the model is called on the context without its seed pair
process_ai_response_no_seed(msgs, hist, o) ==
    IF o.ok
    THEN [messages |-> Append(msgs, Msg("assistant", o.reply,
                                         get_audio_bytes(o.edge, o.gtts))),
          chat_history |-> Append(hist, Block("model", o.reply)),
          call |-> [kind |-> "chat", arg |-> SubSeq(hist, 3, Len(hist)), ok |-> TRUE,
                    result |-> o.reply, tts |-> TtsAttempts(o.edge, o.gtts)],
          ret |-> TRUE]
    ELSE [messages |-> msgs,
          chat_history |-> hist,
          call |-> [kind |-> "chat", arg |-> SubSeq(hist, 3, Len(hist)), ok |-> FALSE,
                    result |-> <<>>, tts |-> <<>>],
          ret |-> FALSE]

process_ai_response(msgs, hist, o) ==
    IF o.ok
    THEN [messages |-> Append(msgs, Msg("assistant", o.reply,
                                         get_audio_bytes(o.edge, o.gtts))),
          chat_history |-> Append(hist, Block("model", o.reply)),
          call |-> [kind |-> "chat", arg |-> hist, ok |-> TRUE, result |-> o.reply,
                    tts |-> TtsAttempts(o.edge, o.gtts)],
          ret |-> TRUE]
    ELSE [messages |-> msgs,
          chat_history |-> hist,
          call |-> [kind |-> "chat", arg |-> hist, ok |-> FALSE, result |-> <<>>, tts |-> <<>>],
          ret |-> FALSE]

----------------------------------------------------------------------------
(* Session state setup, lines 64-90 *)

Init ==
    /\ chat_history = SetupChatHistory
    /\ messages = SetupMessages
    /\ last_processed_audio = NoAudio
    /\ report_generated = FALSE
    /\ final_report_json = Absent
    /\ mode = "chat"
    /\ audio_val = NoAudio
    /\ event = [kind |-> "start"]
    /\ calls = <<>>
    /\ turns = 0
    /\ clean = TRUE

\* variant: only the two logs are re-created
ClearAndRerun_logs_only ==
    /\ chat_history' = SetupChatHistory
    /\ messages' = SetupMessages
    /\ last_processed_audio' = NoAudio
    /\ mode' = "chat"
    /\ audio_val' = NoAudio
    /\ calls' = <<>>
    /\ turns' = 0
    /\ clean' = TRUE
    /\ UNCHANGED <<report_generated, final_report_json>>

\* st.session_state.clear() followed by st.rerun(): the setup section runs
\* again on an empty session, and the chat view no longer renders the audio widget
ClearAndRerun ==
    /\ chat_history' = SetupChatHistory
    /\ messages' = SetupMessages
    /\ last_processed_audio' = NoAudio
    /\ report_generated' = FALSE
    /\ final_report_json' = Absent
    /\ mode' = "chat"
    /\ audio_val' = NoAudio
    /\ calls' = <<>>
    /\ turns' = 0
    /\ clean' = TRUE

----------------------------------------------------------------------------
(* Chat view, text turn: lines 217-230 *)

\* variant: the context is windowed, the oldest entry making room for the new one
SubmitText_windowed ==
    /\ mode = "chat"
    /\ ~report_generated
    /\ Len(messages) + 2 <= MaxMsgs
    /\ \E t \in Texts, o \in ChatOutcomes :
         LET m1 == Append(messages, Msg("user", t, Absent))
             h1 == Append(Tail(chat_history), Block("user", t))
             r == process_ai_response(m1, h1, o)
         IN /\ messages' = r.messages
            /\ chat_history' = r.chat_history
            /\ calls' = <<r.call>>
            /\ event' = [kind |-> "text", input |-> t]
            /\ turns' = IF r.ret THEN turns + 1 ELSE turns
            /\ clean' = (clean /\ r.ret)
    /\ UNCHANGED <<last_processed_audio, report_generated, final_report_json,
                   mode, audio_val>>

\* variant: the user entry is not logged
SubmitText_no_user_entry ==
    /\ mode = "chat"
    /\ ~report_generated
    /\ Len(messages) + 2 <= MaxMsgs
    /\ \E t \in Texts, o \in ChatOutcomes :
         LET h1 == Append(chat_history, Block("user", t))
             r == process_ai_response(messages, h1, o)
         IN /\ messages' = r.messages
            /\ chat_history' = r.chat_history
            /\ calls' = <<r.call>>
            /\ event' = [kind |-> "text", input |-> t]
            /\ turns' = IF r.ret THEN turns + 1 ELSE turns
            /\ clean' = (clean /\ r.ret)
    /\ UNCHANGED <<last_processed_audio, report_generated, final_report_json,
                   mode, audio_val>>

SubmitText ==
    /\ mode = "chat"
    /\ ~report_generated
    /\ Len(messages) + 2 <= MaxMsgs
    /\ \E t \in Texts, o \in ChatOutcomes :
         LET m1 == Append(messages, Msg("user", t, Absent))
             h1 == Append(chat_history, Block("user", t))
             r == process_ai_response(m1, h1, o)
         IN /\ messages' = r.messages
            /\ chat_history' = r.chat_history
            /\ calls' = <<r.call>>
            /\ event' = [kind |-> "text", input |-> t]
            /\ turns' = IF r.ret THEN turns + 1 ELSE turns
            /\ clean' = (clean /\ r.ret)
    /\ UNCHANGED <<last_processed_audio, report_generated, final_report_json,
                   mode, audio_val>>

----------------------------------------------------------------------------
(* Voice view: lines 159-193 *)

TranscribeOutcomes ==
    { [ok |-> FALSE, raw |-> <<>>] } \cup { [ok |-> TRUE, raw |-> w] : w \in RawTranscripts }

\* variant: the transcript reaches the Turn Log only
VoiceTurn_log_only(a, tr, o) ==
    LET transcript == transcribe_audio(tr.ok, tr.raw)
        m1 == Append(messages, Msg("user", MicPrefix \o transcript, Absent))
        r == process_ai_response(m1, chat_history, o)
    IN /\ last_processed_audio' = a
       /\ messages' = r.messages
       /\ chat_history' = r.chat_history
       /\ calls' = << [kind |-> "transcribe", arg |-> a, ok |-> tr.ok, result |-> tr.raw], r.call >>
       /\ clean' = FALSE
       /\ UNCHANGED turns

\* variant: the recording is marked as processed only once the reply arrived
VoiceTurn_mark_on_success(a, tr, o) ==
    LET transcript == transcribe_audio(tr.ok, tr.raw)
        m1 == Append(messages, Msg("user", MicPrefix \o transcript, Absent))
        h1 == Append(chat_history, Block("user", transcript))
        r == process_ai_response(m1, h1, o)
    IN /\ last_processed_audio' = IF r.ret THEN a ELSE last_processed_audio
       /\ messages' = r.messages
       /\ chat_history' = r.chat_history
       /\ calls' = << [kind |-> "transcribe", arg |-> a, ok |-> tr.ok, result |-> tr.raw], r.call >>
       /\ clean' = FALSE
       /\ UNCHANGED turns

\* lines 170-181, run with the widget holding a
VoiceTurn(a, tr, o) ==
    LET transcript == transcribe_audio(tr.ok, tr.raw)
        m1 == Append(messages, Msg("user", MicPrefix \o transcript, Absent))
        h1 == Append(chat_history, Block("user", transcript))
        r == process_ai_response(m1, h1, o)
    IN /\ last_processed_audio' = a
       /\ messages' = r.messages
       /\ chat_history' = r.chat_history
       /\ calls' = << [kind |-> "transcribe", arg |-> a, ok |-> tr.ok, result |-> tr.raw], r.call >>
       /\ clean' = FALSE
       /\ UNCHANGED turns

\* the user records: the widget takes a recording with a new file id and the script runs
SubmitAudio ==
    /\ mode = "voice"
    /\ Len(messages) + 2 <= MaxMsgs
    /\ \E a \in AudioIds \ {audio_val, last_processed_audio},
          tr \in TranscribeOutcomes, o \in ChatOutcomes :
         /\ audio_val' = a
         /\ event' = [kind |-> "audio", input |-> a, transcribed |-> tr.ok]
         /\ IF a # NoAudio /\ a # last_processed_audio
            THEN VoiceTurn(a, tr, o)
            ELSE UNCHANGED <<last_processed_audio, messages, chat_history, turns, clean>>
                 /\ calls' = <<>>
    /\ UNCHANGED <<report_generated, final_report_json, mode>>

\* the user deletes the recording: the widget returns None, line 170 is false
ClearAudio ==
    /\ mode = "voice"
    /\ audio_val # NoAudio
    /\ audio_val' = NoAudio
    /\ event' = [kind |-> "clear_audio"]
    /\ calls' = <<>>
    /\ UNCHANGED <<chat_history, messages, last_processed_audio, report_generated,
                   final_report_json, mode, turns, clean>>

\* variant: leaving the voice view forgets which recording was processed
ExitVoiceMode_forgets_audio ==
    /\ mode = "voice"
    /\ mode' = "chat"
    /\ audio_val' = NoAudio
    /\ last_processed_audio' = NoAudio
    /\ event' = [kind |-> "exit_voice"]
    /\ calls' = <<>>
    /\ clean' = FALSE
    /\ UNCHANGED <<chat_history, messages, report_generated, final_report_json, turns>>

\* lines 191-193; the chat view does not render the audio widget, so its value is dropped
ExitVoiceMode ==
    /\ mode = "voice"
    /\ mode' = "chat"
    /\ audio_val' = NoAudio
    /\ event' = [kind |-> "exit_voice"]
    /\ calls' = <<>>
    /\ clean' = FALSE
    /\ UNCHANGED <<chat_history, messages, last_processed_audio, report_generated,
                   final_report_json, turns>>

\* lines 203-205
VoiceMode ==
    /\ mode = "chat"
    /\ mode' = "voice"
    /\ event' = [kind |-> "voice_mode"]
    /\ calls' = <<>>
    /\ clean' = FALSE
    /\ UNCHANGED <<chat_history, messages, last_processed_audio, report_generated,
                   final_report_json, audio_val, turns>>

----------------------------------------------------------------------------
(* End Session & Generate Report: lines 232-257 *)

ReportCommand == <<"COMMAND: Act as a Senior Clinical Analyst.">>

ReportOutcomes ==
    { [ok |-> FALSE, text |-> <<>>] } \cup { [ok |-> TRUE, text |-> p] : p \in Payloads }

\* variant: the flag is set whether or not the call succeeded
GenerateReport_flag_always ==
    /\ mode = "chat"
    /\ ~report_generated
    /\ \E o \in ReportOutcomes :
         LET prompt == Append(TranscriptText(messages), ReportCommand)
         IN /\ calls' = << [kind |-> "report", arg |-> prompt, ok |-> o.ok, result |-> o.text] >>
            /\ event' = [kind |-> "report"]
            /\ report_generated' = TRUE
            /\ IF o.ok
               THEN final_report_json' = o.text
               ELSE UNCHANGED final_report_json
    /\ clean' = FALSE
    /\ UNCHANGED <<chat_history, messages, last_processed_audio, mode, audio_val, turns>>

\* variant: the button is rendered whatever the flag says
GenerateReport_always_rendered ==
    /\ mode = "chat"
    /\ \E o \in ReportOutcomes :
         LET prompt == Append(TranscriptText(messages), ReportCommand)
         IN /\ calls' = << [kind |-> "report", arg |-> prompt, ok |-> o.ok, result |-> o.text] >>
            /\ event' = [kind |-> "report"]
            /\ IF o.ok
               THEN /\ final_report_json' = o.text
                    /\ report_generated' = TRUE
               ELSE UNCHANGED <<final_report_json, report_generated>>
    /\ clean' = FALSE
    /\ UNCHANGED <<chat_history, messages, last_processed_audio, mode, audio_val, turns>>

GenerateReport ==
    /\ mode = "chat"
    /\ ~report_generated
    /\ \E o \in ReportOutcomes :
         LET prompt == Append(TranscriptText(messages), ReportCommand)
         IN /\ calls' = << [kind |-> "report", arg |-> prompt, ok |-> o.ok, result |-> o.text] >>
            /\ event' = [kind |-> "report"]
            /\ IF o.ok
               THEN /\ final_report_json' = o.text
                    /\ report_generated' = TRUE
               ELSE UNCHANGED <<final_report_json, report_generated>>
    /\ clean' = FALSE
    /\ UNCHANGED <<chat_history, messages, last_processed_audio, mode, audio_val, turns>>

\* what the session held when a reset button was clicked
Snapshot == [entries |-> Len(messages), report |-> report_generated, mode |-> mode]

\* variant: the button deletes the stored report only
StartNewPatient_report_only ==
    /\ mode = "chat"
    /\ report_generated /\ final_report_json # Absent
    /\ final_report_json' = Absent
    /\ event' = [kind |-> "reset", button |-> "Start New Patient", before |-> Snapshot]
    /\ calls' = <<>>
    /\ clean' = FALSE
    /\ UNCHANGED <<chat_history, messages, last_processed_audio, report_generated,
                   mode, audio_val, turns>>

\* lines 276-278
StartNewPatient ==
    /\ mode = "chat"
    /\ report_generated /\ final_report_json # Absent
    /\ ClearAndRerun
    /\ event' = [kind |-> "reset", button |-> "Start New Patient", before |-> Snapshot]

\* lines 281-285
ResetApp ==
    /\ ClearAndRerun
    /\ event' = [kind |-> "reset", button |-> "Reset App", before |-> Snapshot]

\* a script run with no widget event: line 170 sees the value the widget still holds
Rerender ==
    /\ event' = [kind |-> "rerender"]
    /\ IF mode = "voice" /\ audio_val # NoAudio /\ audio_val # last_processed_audio
       THEN \E tr \in TranscribeOutcomes, o \in ChatOutcomes : VoiceTurn(audio_val, tr, o)
       ELSE /\ calls' = <<>>
            /\ UNCHANGED <<last_processed_audio, messages, chat_history, turns, clean>>
    /\ UNCHANGED <<report_generated, final_report_json, mode, audio_val>>

Next ==
    \/ SubmitText
    \/ SubmitAudio
    \/ ClearAudio
    \/ ExitVoiceMode
    \/ VoiceMode
    \/ GenerateReport
    \/ StartNewPatient
    \/ ResetApp
    \/ Rerender

Spec == Init /\ [][Next]_vars

----------------------------------------------------------------------------
TypeOK ==
    /\ mode \in {"chat", "voice"}
    /\ report_generated \in BOOLEAN
    /\ Len(messages) <= MaxMsgs
    /\ last_processed_audio \in AudioIds \cup {NoAudio}
    /\ audio_val \in AudioIds \cup {NoAudio}

----------------------------------------------------------------------------
(* Properties *)

ChatCalls(cs) == { i \in DOMAIN cs : cs[i].kind = "chat" }
ChatFailed(cs) == \E i \in ChatCalls(cs) : ~cs[i].ok
ReportCalls(cs) == { i \in DOMAIN cs : cs[i].kind = "report" }

\* C1 (as stated): after N completed text turns on a fresh session the Turn Log
\* has 2N entries and the Dialogue Context 2N + 2
C1_LengthsAsStated ==
    clean => /\ Len(messages) = 2 * turns
             /\ Len(chat_history) = 2 * turns + 2

\* C1 (amended): after N completed text turns on a fresh session the Turn Log
\* has 2N + 1 entries and the Dialogue Context 2N + 3, the welcome entry being
\* in both from the start
C1_Lengths ==
    clean => /\ Len(messages) = 2 * turns + 1
             /\ Len(chat_history) = 2 * turns + 3

C1_Witness == clean /\ turns = 2 /\ event.kind = "text"

\* C2: once report_generated is true, a submitted turn (text or audio) appends
\* nothing to messages or chat_history and makes no conversation model call
C2_NoTurnAfterReport ==
    [][ (report_generated /\ event'.kind \in {"text", "audio"})
          => /\ messages' = messages
             /\ chat_history' = chat_history
             /\ ChatCalls(calls') = {} ]_vars

\* C3: a turn whose conversation model call fails leaves messages and
\* chat_history as they were before the user submitted (failed transcription aside)
C3_FailedTurnNotAppended ==
    [][ ( /\ event'.kind \in {"text", "audio"}
          /\ (event'.kind = "audio" => event'.transcribed)
          /\ ChatFailed(calls') )
          => /\ messages' = messages
             /\ chat_history' = chat_history ]_vars

\* C4: the generate-report action on a Turn Log of fewer than 3 entries makes
\* no report model call and leaves report_generated false
C4_MinimumLength ==
    [][ (event'.kind = "report" /\ Len(messages) < 3)
          => /\ ~report_generated'
             /\ ReportCalls(calls') = {} ]_vars

\* C5: when the report call returned a payload that is not valid JSON,
\* report_generated is false while the raw payload is stored
C5_MalformedNotFinal ==
    \A i \in ReportCalls(calls) :
        (calls[i].ok /\ ~JsonValid(calls[i].result))
          => /\ ~report_generated
             /\ final_report_json = calls[i].result

\* C6: a generate-report action whose model call raises leaves the flag false,
\* stores no report, leaves both logs alone and leaves the button rendered
C6_ReportFailureKeepsState ==
    [][ (event'.kind = "report" /\ \E i \in ReportCalls(calls') : ~calls'[i].ok)
          => /\ ~report_generated'
             /\ final_report_json' = Absent
             /\ messages' = messages
             /\ chat_history' = chat_history
             /\ mode' = "chat" ]_vars

C6_Witness ==
    /\ event.kind = "report"
    /\ \E i \in ReportCalls(calls) : ~calls[i].ok
    /\ Len(messages) >= 3
    /\ ENABLED GenerateReport

\* C7 (as stated): after a reset the Turn Log is empty, the Dialogue Context is
\* the 2-entry seed pair, the flag is false and no report is stored
C7_ResetAsStated ==
    event.kind = "reset"
      => /\ messages = <<>>
         /\ chat_history = SeedPair
         /\ ~report_generated
         /\ final_report_json = Absent

\* C7 (amended): after a reset the session is as freshly created: the Turn Log
\* holds the welcome entry only, the Dialogue Context is the seed pair followed
\* by the welcome entry, the flag is false and no report is stored
C7_Reset ==
    event.kind = "reset"
      => /\ messages = SetupMessages
         /\ chat_history = SetupChatHistory
         /\ Len(chat_history) = 3 /\ SubSeq(chat_history, 1, 2) = SeedPair
         /\ ~report_generated
         /\ final_report_json = Absent

C7_Witness ==
    /\ event.kind = "reset"
    /\ event.before.report
    /\ event.before.entries > 1

\* C8: chat_history after its two seed entries has the length of messages, and
\* entry i of messages matches entry i + 2 of chat_history in role and text
Corresponds(m, b) ==
    /\ \/ m.role = "user" /\ b.role = "user"
       \/ m.role = "assistant" /\ b.role = "model"
    /\ Len(b.parts) = 1
    /\ \/ m.content = b.parts[1]
       \/ m.role = "user" /\ m.content = MicPrefix \o b.parts[1]

C8_Lockstep ==
    /\ Len(chat_history) = Len(messages) + 2
    /\ \A i \in 1..Len(messages) : Corresponds(messages[i], chat_history[i + 2])

C8_Witness ==
    /\ event.kind = "audio" /\ ~event.transcribed
    /\ ChatFailed(calls)
    /\ Len(messages) >= 4

\* C9: an audio turn whose transcription raises still appends a user Turn Log
\* entry carrying the sentinel and a user Dialogue Context entry with the
\* sentinel, and makes the conversation model call on that context
C9_TranscriptionFailure ==
    [][ (event'.kind = "audio" /\ ~event'.transcribed)
          => /\ Len(messages') > Len(messages)
             /\ messages'[Len(messages) + 1] = Msg("user", MicPrefix \o Unintelligible, Absent)
             /\ chat_history'[Len(chat_history) + 1] = Block("user", Unintelligible)
             /\ \E i \in ChatCalls(calls') :
                  calls'[i].arg = Append(chat_history, Block("user", Unintelligible)) ]_vars

C9_Witness ==
    /\ event.kind = "audio" /\ ~event.transcribed
    /\ \E i \in ChatCalls(calls) : calls[i].ok
    /\ messages[Len(messages) - 1].content = MicPrefix \o Unintelligible

\* C10: without a reset, report_generated once true stays true, the stored
\* report keeps its value and no further report model call is made
C10_OneWay ==
    [][ (report_generated /\ event'.kind # "reset")
          => /\ report_generated'
             /\ final_report_json' = final_report_json
             /\ ReportCalls(calls') = {} ]_vars

C10_Witness ==
    /\ report_generated
    /\ event.kind \in {"audio", "voice_mode", "exit_voice", "rerender"}
    /\ ~ENABLED GenerateReport


\* C11: chat_history always starts with the system-instruction entry (user)
\* and its acknowledgment (model); a step that is not a reset keeps every
\* existing entry in its place and only appends; a user entry is appended
\* only behind the seed pair
IsPrefix(s, t) == Len(s) <= Len(t) /\ SubSeq(t, 1, Len(s)) = s

C11_SeedFirst ==
    /\ Len(chat_history) >= 2
    /\ chat_history[1] = Block("user", SystemPrompt)
    /\ chat_history[2] = Block("model", Understood)

C11_SeedAndAppendOnly ==
    /\ [] C11_SeedFirst
    /\ [][ event'.kind # "reset"
             => /\ IsPrefix(chat_history, chat_history')
                /\ \A i \in (Len(chat_history) + 1)..Len(chat_history') :
                     chat_history'[i].role = "user" => i > 2 ]_vars

C11_Witness ==
    /\ Len(chat_history) >= 6
    /\ \E i \in 3..Len(chat_history) : chat_history[i].role = "user"
    /\ event.kind \in {"text", "audio"}


\* C12: a text or audio turn makes exactly one conversation model call, on the
\* whole chat_history as it is once the new user entry has been appended
\* (seed pair, all earlier entries, the new user entry); any other script run,
\* a re-render after a failed call included, makes none
C12_OneCallFullContext ==
    [][ IF event'.kind \in {"text", "audio"}
        THEN /\ Cardinality(ChatCalls(calls')) = 1
             /\ Len(chat_history') > Len(chat_history)
             /\ LET user == chat_history'[Len(chat_history) + 1]
                IN /\ user.role = "user"
                   /\ \A i \in ChatCalls(calls') :
                        /\ calls'[i].arg = Append(chat_history, user)
                        /\ SubSeq(calls'[i].arg, 1, 2) = SeedPair
        ELSE ChatCalls(calls') = {} ]_vars

C12_Witness ==
    /\ event.kind = "rerender"
    /\ calls = <<>>
    /\ messages[Len(messages)].role = "user"
    /\ Len(messages) >= 3


\* C13: synthesis tries the neural voice first and the simple one only after
\* the first failed; whatever the outcome, a successful model reply is the
\* last entry of both logs, carrying the audio of the first path that
\* succeeded, or None when both failed
Succeeded(att) == { i \in DOMAIN att : att[i].ok }

C13_SynthesisNeverFailsTurn ==
    \A i \in ChatCalls(calls) :
        calls[i].ok =>
          LET att == calls[i].tts
              audio == messages[Len(messages)].audio
          IN /\ Len(att) \in {1, 2}
             /\ att[1].path = "edge"
             /\ (Len(att) = 2 <=> ~att[1].ok)
             /\ (Len(att) = 2 => att[2].path = "gtts")
             /\ messages[Len(messages)].role = "assistant"
             /\ messages[Len(messages)].content = calls[i].result
             /\ chat_history[Len(chat_history)] = Block("model", calls[i].result)
             /\ IF Succeeded(att) = {} THEN audio = None
                ELSE \E k \in Succeeded(att) :
                        /\ audio = att[k].path
                        /\ \A j \in Succeeded(att) : k <= j

C13_Witness ==
    /\ \E i \in ChatCalls(calls) : calls[i].ok /\ Succeeded(calls[i].tts) = {}
    /\ messages[Len(messages)].role = "assistant"
    /\ messages[Len(messages)].audio = None


\* the transcript lines of a report prompt: everything before the command
PromptLines(prompt) == SubSeq(prompt, 1, Len(prompt) - 1)

Speaker(m) == IF m.role = "user" THEN "USER" ELSE "ASSISTANT"

\* one report call, whose transcript has one "SPEAKER: content" line per
\* Turn Log entry, in Turn Log order
OneLinePerEntry(cs, msgs) ==
    /\ Len(cs) = 1
    /\ cs[1].kind = "report"
    /\ cs[1].arg[Len(cs[1].arg)] = ReportCommand
    /\ Len(PromptLines(cs[1].arg)) = Len(msgs)
    /\ \A i \in 1..Len(msgs) :
         PromptLines(cs[1].arg)[i] = <<Speaker(msgs[i]), ": ">> \o msgs[i].content

\* C14 (as stated): the generate-report action makes one report call with one
\* line per Turn Log entry in order, and after two completed user/assistant
\* turns that transcript has 4 lines
C14_TranscriptAsStated ==
    [][ event'.kind = "report"
          => /\ OneLinePerEntry(calls', messages)
             /\ (clean /\ turns = 2 => Len(PromptLines(calls'[1].arg)) = 4) ]_vars

\* C14 (amended): the generate-report action makes one report call with one
\* line per Turn Log entry in order, and after two completed user/assistant
\* turns that transcript has 5 lines, the first being the welcome entry
C14_Transcript ==
    [][ event'.kind = "report"
          => /\ OneLinePerEntry(calls', messages)
             /\ (clean /\ turns = 2
                   => /\ Len(PromptLines(calls'[1].arg)) = 5
                      /\ PromptLines(calls'[1].arg)[1] = <<"ASSISTANT", ": ">> \o WelcomeMsg) ]_vars

C14_Witness ==
    /\ event.kind = "report"
    /\ Len(messages) = 5
    /\ Len(PromptLines(calls[1].arg)) = 5
    /\ \A i \in 1..5 : messages[i].role = (IF i % 2 = 1 THEN "assistant" ELSE "user")


\* C15: report_generated is true exactly when a final_report_json value is
\* stored: the two are set by the same successful report call and removed by
\* the same reset
C15_FlagIffReport ==
    /\ report_generated <=> final_report_json # Absent
    /\ report_generated => final_report_json \in Payloads

C15_Witness ==
    /\ report_generated
    /\ final_report_json # Absent
    /\ event.kind # "report"


\* C16: in the voice view the recording the widget holds is always the one
\* already processed, and a script re-run that finds that recording appends
\* nothing and makes no model call, also when the model call for it had failed
C16_AudioProcessedOnce ==
    /\ [] (mode = "voice" /\ audio_val # NoAudio => audio_val = last_processed_audio)
    /\ [][ ( /\ event'.kind = "rerender"
             /\ mode = "voice"
             /\ audio_val # NoAudio
             /\ audio_val = last_processed_audio )
             => /\ messages' = messages
                /\ chat_history' = chat_history
                /\ last_processed_audio' = last_processed_audio
                /\ calls' = <<>> ]_vars

C16_Witness ==
    /\ event.kind = "rerender"
    /\ mode = "voice"
    /\ audio_val # NoAudio
    /\ audio_val = last_processed_audio
    /\ messages[Len(messages)].role = "user"
    /\ SubSeq(messages[Len(messages)].content, 1, 1) = MicPrefix


\* C17: messages is never empty, starts with an assistant entry and has no two
\* adjacent assistant entries; a step that appends an assistant entry is a
\* text or audio turn that appended a user entry right before it
C17_Shape ==
    /\ messages # <<>>
    /\ messages[1].role = "assistant"
    /\ \A i \in 1..(Len(messages) - 1) :
         ~(messages[i].role = "assistant" /\ messages[i + 1].role = "assistant")

C17_AssistantAfterUser ==
    /\ [] C17_Shape
    /\ [][ ( /\ event'.kind # "reset"
             /\ \E i \in (Len(messages) + 1)..Len(messages') : messages'[i].role = "assistant" )
             => /\ event'.kind \in {"text", "audio"}
                /\ Len(messages') = Len(messages) + 2
                /\ messages'[Len(messages) + 1].role = "user"
                /\ messages'[Len(messages) + 2].role = "assistant"
                /\ \E i \in ChatCalls(calls') : calls'[i].ok ]_vars

C17_Witness ==
    /\ Len(messages) >= 4
    /\ \E i \in 1..(Len(messages) - 1) :
         messages[i].role = "user" /\ messages[i + 1].role = "user"
    /\ messages[Len(messages)].role = "assistant"


\* C18: a mode switch (Voice Mode, Exit Voice Mode) flips mode and leaves
\* messages, chat_history, report_generated, final_report_json and
\* last_processed_audio as they were, without any model call
C18_ModeSwitchFrame ==
    [][ event'.kind \in {"voice_mode", "exit_voice"}
          => /\ mode' = (IF event'.kind = "voice_mode" THEN "voice" ELSE "chat")
             /\ mode' # mode
             /\ messages' = messages
             /\ chat_history' = chat_history
             /\ report_generated' = report_generated
             /\ final_report_json' = final_report_json
             /\ last_processed_audio' = last_processed_audio
             /\ calls' = <<>> ]_vars

C18_Witness ==
    /\ event.kind = "exit_voice"
    /\ mode = "chat"
    /\ last_processed_audio # NoAudio
    /\ Len(messages) >= 3
    /\ report_generated

====
